---- MODULE Spec2Model ----
(***************************************************************************)
(* PokeSearcher: random grid world, reachability-checked placement of two  *)
(* endpoints (place_entities_on_grid) and weighted A* search (astar).      *)
(* Modelled from src/v0/app.py; src/v0/terminal_poke_astar.py holds the    *)
(* same functions with the retry cap as a module constant.                 *)
(*                                                                         *)
(* Two executions of the program ("runs") are carried side by side so that *)
(* statements comparing two executions (same seed; recording on and off)   *)
(* are state predicates.  Run 1 is the execution every single-run claim is *)
(* about.                                                                  *)
(***************************************************************************)
EXTENDS Integers, Sequences, FiniteSets, TLC

\* ------------------------------------------------------------------ bounds
\* Longest side of a grid.
MaxSide == 3
\* Largest number of cells of a grid handed to astar directly (SpecSolve).
MaxCells == 6
\* Largest number of cells of a grid in the termination check (FairSolve).
MaxFairCells == 4
\* Largest number of cells of a generated world (Spec, FairSpec).
MaxWorldCells == 3
\* The retry cap (300 in app.py, 400 in terminal_poke_astar.py), scaled down.
MaxPlaceTries == 2

\* --------------------------------------------------------------- constants
TILE_NORMAL == "."
TILE_WALL == "#"
TILE_MUD == "~"
Tiles == {TILE_NORMAL, TILE_WALL, TILE_MUD}

\* COSTS with Mud entered at the price of Normal.
COSTS_flat(tile) == 1

\* COSTS.get(tile, 1): Normal 1, Mud 3, anything else the default 1.
COSTS(tile) == IF tile = TILE_MUD THEN 3 ELSE 1

\* Python's None, for the seed and for variables not yet assigned.
None == "None"
NoCell == <<>>
NoGrid == <<>>

\* app.py's INCLUDE_STEPS (ANIMATE in terminal_poke_astar.py).
INCLUDE_STEPS == FALSE

\* random.random() and the probabilities, in halves: a draw is 0 (a value in
\* [0, 0.5)) or 1 (a value in [0.5, 1)); a probability p stands for p/2.
Draws == {0, 1}
\* wall_prob and mud_prob: one value below the range [0,1] (-0.5), one inside
\* it (0.5), one above it (1.5).  The code never looks at the range, so -0.5
\* behaves as 0 does (the test "draw < prob" never holds) and 1.5 as 1.
Probs == {-1, 1, 3}
InRange(p) == 0 <= p /\ p <= 2

Runs == {1, 2}

\* ------------------------------------------------------------ grid helpers
\* A grid is a function row -> (column -> tile), 0-indexed like the lists.
Rows(grid) == Cardinality(DOMAIN grid)
Cols(grid) == Cardinality(DOMAIN grid[0])
InBounds(grid, cell) ==
    /\ 0 <= cell[1] /\ cell[1] < Rows(grid)
    /\ 0 <= cell[2] /\ cell[2] < Cols(grid)
CellsOf(grid) ==
    IF Rows(grid) = 0 THEN {} ELSE (0 .. Rows(grid) - 1) \X (0 .. Cols(grid) - 1)
Tile(grid, cell) == grid[cell[1]][cell[2]]

Abs(x) == IF x < 0 THEN -x ELSE x
manhattan(a, b) == Abs(a[1] - b[1]) + Abs(a[2] - b[2])

\* The neighbour loops with the step to the left missing.
Dirs_noleft == << <<1, 0>>, <<-1, 0>>, <<0, 1>> >>

\* The neighbour order of both loops: (1,0), (-1,0), (0,1), (0,-1).
Dirs == << <<1, 0>>, <<-1, 0>>, <<0, 1>>, <<0, -1>> >>

\* --------------------------------------------------------- generate_grid
\* The uniform draws of one call, cell by cell in row-major order: the pair
\* for a cell is its first draw and the draw that follows it.  The second is
\* not made when the first makes the cell a wall; it is fixed to 0 then, so
\* that every sequence of values drawn is listed once.
CellDraws(wall_prob) == {uv \in Draws \X Draws : uv[1] < wall_prob => uv[2] = 0}
DrawSeqs(rows, cols, wall_prob) ==
    IF rows <= 0 \/ cols <= 0 THEN {<<>>}
    ELSE [1 .. rows * cols -> CellDraws(wall_prob)]

\* The cells of range(rows) x range(cols) in row-major order, as a sequence.
RowMajor(rows, cols) ==
    IF rows <= 0 \/ cols <= 0 THEN <<>>
    ELSE [k \in 1 .. rows * cols |-> <<(k - 1) \div cols, (k - 1) % cols>>]

\* The loop body for the cells order[n..]: acc is [tiles so far, draws used].
RECURSIVE GenCells(_, _, _, _, _, _)
GenCells(order, n, wall_prob, mud_prob, draws, acc) ==
    IF n > Len(order) THEN acc
    ELSE LET rnum == draws[n][1]
         IN IF rnum < wall_prob
            THEN GenCells(order, n + 1, wall_prob, mud_prob, draws,
                          [tiles |-> Append(acc.tiles, TILE_WALL), used |-> acc.used + 1])
            ELSE IF draws[n][2] < mud_prob
            THEN GenCells(order, n + 1, wall_prob, mud_prob, draws,
                          [tiles |-> Append(acc.tiles, TILE_MUD), used |-> acc.used + 2])
            ELSE GenCells(order, n + 1, wall_prob, mud_prob, draws,
                          [tiles |-> Append(acc.tiles, TILE_NORMAL), used |-> acc.used + 2])

\* generate_grid without the seeding: the grid built and the draws consumed.
\* range() of a non-positive number is empty: rows <= 0 gives [], cols <= 0
\* gives rows empty lists.
generate_grid(rows, cols, wall_prob, mud_prob, draws) ==
    LET order == RowMajor(rows, cols)
        res == GenCells(order, 1, wall_prob, mud_prob, draws, [tiles |-> <<>>, used |-> 0])
    IN [grid |-> IF rows <= 0 THEN <<>>
                 ELSE [r \in 0 .. rows - 1 |->
                        IF cols <= 0 THEN <<>>
                        ELSE [c \in 0 .. cols - 1 |-> res.tiles[r * cols + c + 1]]],
        used |-> res.used]

\* generate_grid calling random.seed(seed) also when seed is None, which
\* reseeds from the operating system.
reseed_always(stream, seed) == IF seed # None THEN "seeded" ELSE "entropy"

\* "if seed is not None: random.seed(seed)": the stream a run draws from is
\* "seeded" (a function of the seed and the number of draws since) or
\* "entropy" (seeded by the interpreter from the operating system).
reseed(stream, seed) == IF seed # None THEN "seeded" ELSE stream

\* ------------------------------------------------------- ensure_reachable
\* One pass of "for dr, dc in [...]" for the popped cell cur.
RECURSIVE BfsNeighbors(_, _, _, _)
BfsNeighbors(grid, cur, d, qs) ==
    IF d > Len(Dirs) THEN qs
    ELSE LET n == <<cur[1] + Dirs[d][1], cur[2] + Dirs[d][2]>>
         IN IF InBounds(grid, n) /\ Tile(grid, n) # TILE_WALL /\ n \notin qs.seen
            THEN BfsNeighbors(grid, cur, d + 1,
                              [q |-> Append(qs.q, n), seen |-> qs.seen \cup {n}])
            ELSE BfsNeighbors(grid, cur, d + 1, qs)

RECURSIVE BfsLoop(_, _, _)
BfsLoop(grid, goal, qs) ==
    IF qs.q = <<>> THEN FALSE
    ELSE LET cur == Head(qs.q)
         IN IF cur = goal THEN TRUE
            ELSE BfsLoop(grid, goal,
                         BfsNeighbors(grid, cur, 1, [q |-> Tail(qs.q), seen |-> qs.seen]))

\* The search without its Wall test: every cell of the grid is reached.
ensure_reachable_nowalls(grid, start, goal) == goal \in CellsOf(grid)

ensure_reachable(grid, start, goal) ==
    BfsLoop(grid, goal, [q |-> <<start>>, seen |-> {start}])

\* ------------------------------------------------------------------ state
VARIABLES
    rows, cols, wall_prob, mud_prob, seed,   \* ROWS, COLS, WALL_PROB, MUD_PROB, SEED
    active,          \* the runs that execute
    aligned,         \* the active runs have drawn equally often since seeding
    pc,              \* per run: where the run stands
    err,             \* per run: the exception that ended it, if any
    stream,          \* per run: "seeded" or "entropy" (see reseed)
    drew,            \* per run: a random draw has been consumed
    redraws,         \* per run: parity of the draws random_empty_cell has rejected
    genbit,          \* per run: flips at every call of generate_grid
    grid, start, goal, tries,                \* locals of place_entities_on_grid
    record_steps,                            \* astar's argument
    g, parent, open_heap, open_set, closed_set, steps,   \* locals of astar
    popped,          \* per run: the cells popped from open_heap, in order
    result           \* per run: what astar returned

config == <<rows, cols, wall_prob, mud_prob, seed, active>>
perrun == <<pc, err, stream, drew, redraws, genbit, grid, start, goal, tries, record_steps,
            g, parent, open_heap, open_set, closed_set, steps, popped, result>>
vars == <<config, aligned, perrun>>

\* The state of run i as one record, and the assignment of new run states.
S(i) ==
    [pc |-> pc[i], err |-> err[i], stream |-> stream[i], drew |-> drew[i], redraws |-> redraws[i],
     genbit |-> genbit[i], grid |-> grid[i], start |-> start[i], goal |-> goal[i],
     tries |-> tries[i], record_steps |-> record_steps[i], g |-> g[i],
     parent |-> parent[i], open_heap |-> open_heap[i], open_set |-> open_set[i],
     closed_set |-> closed_set[i], steps |-> steps[i], popped |-> popped[i],
     result |-> result[i]]

Apply(A, new) ==
    /\ pc' = [i \in Runs |-> IF i \in A THEN new[i].pc ELSE pc[i]]
    /\ err' = [i \in Runs |-> IF i \in A THEN new[i].err ELSE err[i]]
    /\ stream' = [i \in Runs |-> IF i \in A THEN new[i].stream ELSE stream[i]]
    /\ drew' = [i \in Runs |-> IF i \in A THEN new[i].drew ELSE drew[i]]
    /\ redraws' = [i \in Runs |-> IF i \in A THEN new[i].redraws ELSE redraws[i]]
    /\ genbit' = [i \in Runs |-> IF i \in A THEN new[i].genbit ELSE genbit[i]]
    /\ grid' = [i \in Runs |-> IF i \in A THEN new[i].grid ELSE grid[i]]
    /\ start' = [i \in Runs |-> IF i \in A THEN new[i].start ELSE start[i]]
    /\ goal' = [i \in Runs |-> IF i \in A THEN new[i].goal ELSE goal[i]]
    /\ tries' = [i \in Runs |-> IF i \in A THEN new[i].tries ELSE tries[i]]
    /\ record_steps' = [i \in Runs |-> IF i \in A THEN new[i].record_steps ELSE record_steps[i]]
    /\ g' = [i \in Runs |-> IF i \in A THEN new[i].g ELSE g[i]]
    /\ parent' = [i \in Runs |-> IF i \in A THEN new[i].parent ELSE parent[i]]
    /\ open_heap' = [i \in Runs |-> IF i \in A THEN new[i].open_heap ELSE open_heap[i]]
    /\ open_set' = [i \in Runs |-> IF i \in A THEN new[i].open_set ELSE open_set[i]]
    /\ closed_set' = [i \in Runs |-> IF i \in A THEN new[i].closed_set ELSE closed_set[i]]
    /\ steps' = [i \in Runs |-> IF i \in A THEN new[i].steps ELSE steps[i]]
    /\ popped' = [i \in Runs |-> IF i \in A THEN new[i].popped ELSE popped[i]]
    /\ result' = [i \in Runs |-> IF i \in A THEN new[i].result ELSE result[i]]

\* What a step of a run yields: its new state, the number of draws it took
\* from the random stream, and whether it called random.seed(seed).
Out(st, used, reset) == [st |-> st, used |-> used, reset |-> reset]

NoResult == [kind |-> "unset"]
ResultNone == [kind |-> "None"]

\* ------------------------------------------------- place_entities_on_grid
\* api_new up to the first line of place_entities_on_grid: random.seed(SEED)
\* if SEED is set, then grid = generate_grid(..., seed); tries = 0.
NewWorldInputs(s) == DrawSeqs(rows, cols, wall_prob)
NewWorldStep(s, draws) ==
    LET gg == generate_grid(rows, cols, wall_prob, mud_prob, draws)
    IN Out([s EXCEPT !.stream = reseed(reseed(s.stream, seed), seed),
                     !.grid = gg.grid, !.genbit = 1 - s.genbit,
                     !.drew = gg.used > 0, !.tries = 0, !.pc = "pick_start"],
           gg.used, seed # None)

\* One pass of the "while True" of random_empty_cell, with the two lines before
\* it: len(grid[0]) raises IndexError on [], randrange(0) raises ValueError.
PickInputs(s) ==
    IF Rows(s.grid) = 0 \/ Cols(s.grid) = 0 THEN {<<0, 0>>}
    ELSE (0 .. Rows(s.grid) - 1) \X (0 .. Cols(s.grid) - 1)
random_empty_cell(s, rc, isStart) ==
    IF Rows(s.grid) = 0
    THEN Out([s EXCEPT !.pc = "error", !.err = "IndexError"], 0, FALSE)
    ELSE IF Cols(s.grid) = 0
    THEN Out([s EXCEPT !.pc = "error", !.err = "ValueError", !.drew = TRUE], 1, FALSE)
    ELSE IF Tile(s.grid, rc) # TILE_WALL
    THEN Out(IF isStart
             THEN [s EXCEPT !.start = rc, !.drew = TRUE, !.redraws = 0, !.pc = "pick_goal"]
             ELSE [s EXCEPT !.goal = rc, !.drew = TRUE, !.redraws = 0, !.pc = "check"], 2, FALSE)
    ELSE Out([s EXCEPT !.drew = TRUE, !.redraws = 1 - s.redraws], 2, FALSE)

PickStartStep(s, rc) == random_empty_cell(s, rc, TRUE)
PickGoalStep(s, rc) == random_empty_cell(s, rc, FALSE)

\* The rest of one pass of the loop of place_entities_on_grid: both failure
\* branches do the same bookkeeping.
AttemptFails(s) == s.start = s.goal \/ ~ensure_reachable(s.grid, s.start, s.goal)
AttemptRegenerates(s) == AttemptFails(s) /\ s.tries + 1 > MaxPlaceTries
AttemptInputs(s) == IF AttemptRegenerates(s) THEN DrawSeqs(rows, cols, wall_prob) ELSE {<<>>}
\* The loop with "tries += 1" missing from the start == goal branch.
place_entities_uncounted(s, draws) ==
    IF ~AttemptFails(s)
    THEN Out([s EXCEPT !.pc = "placed"], 0, FALSE)
    ELSE IF s.start = s.goal
    THEN Out([s EXCEPT !.pc = "pick_start"], 0, FALSE)
    ELSE IF s.tries + 1 > MaxPlaceTries
    THEN LET gg == generate_grid(rows, cols, wall_prob, mud_prob, draws)
         IN Out([s EXCEPT !.stream = reseed(s.stream, None), !.grid = gg.grid,
                          !.genbit = 1 - s.genbit, !.drew = s.drew \/ gg.used > 0,
                          !.tries = 0, !.pc = "pick_start"], gg.used, FALSE)
    ELSE Out([s EXCEPT !.tries = s.tries + 1, !.pc = "pick_start"], 0, FALSE)

place_entities_on_grid(s, draws) ==
    IF ~AttemptFails(s)
    THEN Out([s EXCEPT !.pc = "placed"], 0, FALSE)
    ELSE IF s.tries + 1 > MaxPlaceTries
    THEN LET gg == generate_grid(rows, cols, wall_prob, mud_prob, draws)
         IN Out([s EXCEPT !.stream = reseed(s.stream, None), !.grid = gg.grid,
                          !.genbit = 1 - s.genbit, !.drew = s.drew \/ gg.used > 0,
                          !.tries = 0, !.pc = "pick_start"], gg.used, FALSE)
    ELSE Out([s EXCEPT !.tries = s.tries + 1, !.pc = "pick_start"], 0, FALSE)

\* ------------------------------------------------------------------ astar
\* Order of the heap entries (f, g, cell): Python's tuple comparison.
CellLess(a, b) == a[1] < b[1] \/ (a[1] = b[1] /\ a[2] < b[2])
EntryLess(a, b) ==
    \/ a[1] < b[1]
    \/ a[1] = b[1] /\ a[2] < b[2]
    \/ a[1] = b[1] /\ a[2] = b[2] /\ CellLess(a[3], b[3])

\* heapq.heappop: the position of the least entry, and the heap without it.
MinIndex(heap) ==
    CHOOSE i \in 1 .. Len(heap) :
        \A j \in 1 .. Len(heap) : ~EntryLess(heap[j], heap[i]) /\ (heap[j] = heap[i] => i <= j)
RemoveAt(seq, i) == SubSeq(seq, 1, i - 1) \o SubSeq(seq, i + 1, Len(seq))

\* The path-reconstruction loop: "while cur != start: path.append(cur);
\* cur = parent[cur]", then append start and reverse.  parent[cur] raises
\* KeyError when cur has no parent; fuel runs out only on a parent cycle.
Reverse(seq) == [k \in 1 .. Len(seq) |-> seq[Len(seq) + 1 - k]]
RECURSIVE Reconstruct(_, _, _, _, _)
Reconstruct(par, cur, st, path, fuel) ==
    IF cur = st THEN [kind |-> "path", path |-> Reverse(Append(path, st))]
    ELSE IF cur \notin DOMAIN par THEN [kind |-> "KeyError"]
    ELSE IF fuel = 0 THEN [kind |-> "loops"]
    ELSE Reconstruct(par, par[cur], st, Append(path, cur), fuel - 1)

\* The body of the neighbour loop with "tentative_g <= g.get(neighbor, inf)".
RelaxOne_nonstrict(grd, gl, current, d, a) ==
    LET neighbor == <<current[1] + Dirs[d][1], current[2] + Dirs[d][2]>>
    IN IF ~InBounds(grd, neighbor) THEN a
       ELSE IF Tile(grd, neighbor) = TILE_WALL THEN a
       ELSE LET tentative_g == a.g[current] + COSTS(Tile(grd, neighbor))
            IN IF neighbor \notin DOMAIN a.g \/ tentative_g <= a.g[neighbor]
               THEN [g |-> (neighbor :> tentative_g) @@ a.g,
                     parent |-> (neighbor :> current) @@ a.parent,
                     open_heap |-> Append(a.open_heap,
                         <<tentative_g + manhattan(neighbor, gl), tentative_g, neighbor>>),
                     open_set |-> a.open_set \cup {neighbor}]
               ELSE a

\* The body of the neighbour loop for direction d; a is [g, parent, open_heap,
\* open_set].
RelaxOne(grd, gl, current, d, a) ==
    LET neighbor == <<current[1] + Dirs[d][1], current[2] + Dirs[d][2]>>
    IN IF ~InBounds(grd, neighbor) THEN a
       ELSE IF Tile(grd, neighbor) = TILE_WALL THEN a
       ELSE LET tentative_g == a.g[current] + COSTS(Tile(grd, neighbor))
            IN IF neighbor \notin DOMAIN a.g \/ tentative_g < a.g[neighbor]
               THEN [g |-> (neighbor :> tentative_g) @@ a.g,
                     parent |-> (neighbor :> current) @@ a.parent,
                     open_heap |-> Append(a.open_heap,
                         <<tentative_g + manhattan(neighbor, gl), tentative_g, neighbor>>),
                     open_set |-> a.open_set \cup {neighbor}]
               ELSE a

\* The neighbour loop of one expansion, from direction d on: each pass works
\* on the values the pass before it left.
RECURSIVE Relax(_, _, _, _, _)
Relax(grd, gl, current, d, a) ==
    CHOOSE r \in {IF d > Len(Dirs) THEN a0
                  ELSE Relax(grd, gl, current, d + 1, RelaxOne(grd, gl, current, d, a0)) :
                  a0 \in {a}} : TRUE

\* The call res = astar(grid, start, goal, record_steps) up to the loop.
AstarCallStep(s, in) ==
    Out([s EXCEPT !.g = (s.start :> 0), !.parent = <<>>,
                  !.open_heap = << <<manhattan(s.start, s.goal), 0, s.start>> >>,
                  !.open_set = {s.start}, !.closed_set = {}, !.steps = <<>>,
                  !.popped = <<>>, !.pc = "astar"], 0, FALSE)

\* closed_set.add(current) indented into the "if record_steps:" block.
PopBookkeeping_indented(s, current) ==
    LET open1 == s.open_set \ {current}
        closed1 == IF s.record_steps THEN s.closed_set \cup {current} ELSE s.closed_set
    IN [open_set |-> open1, closed_set |-> closed1,
        steps |-> IF s.record_steps
                  THEN Append(s.steps, [current |-> current, open |-> open1,
                                        closed |-> closed1, g |-> s.g])
                  ELSE s.steps]

\* The bookkeeping with "open_set.discard(current)" left out.
PopBookkeeping_nodiscard(s, current) ==
    LET closed1 == s.closed_set \cup {current}
    IN [open_set |-> s.open_set, closed_set |-> closed1,
        steps |-> IF s.record_steps
                  THEN Append(s.steps, [current |-> current, open |-> s.open_set,
                                        closed |-> closed1, g |-> s.g])
                  ELSE s.steps]

\* The bookkeeping with "closed_set.add(current)" left out.
PopBookkeeping_noclose(s, current) ==
    LET open1 == s.open_set \ {current}
    IN [open_set |-> open1, closed_set |-> s.closed_set,
        steps |-> IF s.record_steps
                  THEN Append(s.steps, [current |-> current, open |-> open1,
                                        closed |-> s.closed_set, g |-> s.g])
                  ELSE s.steps]

\* After a pop that is not discarded: open_set.discard(current),
\* closed_set.add(current) and, if record_steps, the snapshot.
PopBookkeeping(s, current) ==
    LET open1 == s.open_set \ {current}
        closed1 == s.closed_set \cup {current}
    IN [open_set |-> open1, closed_set |-> closed1,
        steps |-> IF s.record_steps
                  THEN Append(s.steps, [current |-> current, open |-> open1,
                                        closed |-> closed1, g |-> s.g])
                  ELSE s.steps]

\* One pass of "while open_heap", or leaving the loop with "return None".
astar(s, in) ==
    IF s.open_heap = <<>>
    THEN Out([s EXCEPT !.result = ResultNone, !.pc = "done"], 0, FALSE)
    ELSE
    LET i == MinIndex(s.open_heap)
        current == s.open_heap[i][3]
        heap1 == RemoveAt(s.open_heap, i)
        popped1 == Append(s.popped, current)
    IN IF current \in s.closed_set
       THEN Out([s EXCEPT !.open_heap = heap1, !.popped = popped1], 0, FALSE)
       ELSE
       LET b == PopBookkeeping(s, current)
           open1 == b.open_set
           closed1 == b.closed_set
           steps1 == b.steps
       IN IF current = s.goal
          THEN LET rec == Reconstruct(s.parent, current, s.start, <<>>,
                                      Cardinality(DOMAIN s.parent))
               IN IF rec.kind = "path"
                  THEN Out([s EXCEPT !.open_heap = heap1, !.popped = popped1,
                                     !.open_set = open1, !.closed_set = closed1,
                                     !.steps = steps1, !.pc = "done",
                                     !.result = [kind |-> "path", path |-> rec.path,
                                                 expanded |-> Cardinality(closed1),
                                                 steps |-> steps1]], 0, FALSE)
                  ELSE Out([s EXCEPT !.open_heap = heap1, !.popped = popped1,
                                     !.open_set = open1, !.closed_set = closed1,
                                     !.steps = steps1, !.pc = "error",
                                     !.err = rec.kind], 0, FALSE)
          ELSE LET a == Relax(s.grid, s.goal, current, 1,
                              [g |-> s.g, parent |-> s.parent,
                               open_heap |-> heap1, open_set |-> open1])
               IN Out([s EXCEPT !.g = a.g, !.parent = a.parent,
                                !.open_heap = a.open_heap, !.open_set = a.open_set,
                                !.closed_set = closed1, !.steps = steps1,
                                !.popped = popped1], 0, FALSE)

\* ------------------------------------------------------------------ steps
NoInputs(s) == {<<>>}
\* place_entities_on_grid has returned: api_new goes on to call astar.
PlacedStep(s, in) == Out([s EXCEPT !.pc = "call_astar"], 0, FALSE)

\* The step a run takes at position K, and the random values it may draw.
StepOf(K, s, in) ==
    CASE K = "api_new" -> NewWorldStep(s, in)
      [] K = "pick_start" -> PickStartStep(s, in)
      [] K = "pick_goal" -> PickGoalStep(s, in)
      [] K = "check" -> place_entities_on_grid(s, in)
      [] K = "placed" -> PlacedStep(s, in)
      [] K = "call_astar" -> AstarCallStep(s, in)
      [] K = "astar" -> astar(s, in)
InputsOf(K, s) ==
    CASE K = "api_new" -> NewWorldInputs(s)
      [] K \in {"pick_start", "pick_goal"} -> PickInputs(s)
      [] K = "check" -> AttemptInputs(s)
      [] OTHER -> NoInputs(s)

\* The active runs standing at K: they take the step together.
At(K) == {i \in active : pc[i] = K}

\* Two runs draw the same values exactly when both draw from a seeded stream
\* at the same position: both streams are "seeded" and the runs are aligned
\* (or both reseed in this step).  Neither depends on the values drawn.
Forced(K) ==
    /\ At(K) = active
    /\ Cardinality(At(K)) = 2
    /\ LET out0 == [i \in At(K) |-> StepOf(K, S(i), CHOOSE x \in InputsOf(K, S(i)) : TRUE)]
       IN /\ aligned \/ \A i \in At(K) : out0[i].reset
          /\ \A i \in At(K) : out0[i].st.stream = "seeded"

JointInputs(K) ==
    IF \A i \in At(K) : InputsOf(K, S(i)) = {<<>>}
    THEN {[i \in At(K) |-> <<>>]}
    ELSE IF Forced(K)
    THEN {[i \in At(K) |-> x] : x \in {y \in InputsOf(K, S(CHOOSE i \in At(K) : TRUE)) :
                                          \A i \in At(K) : y \in InputsOf(K, S(i))}}
    ELSE {f \in [At(K) -> UNION {InputsOf(K, S(i)) : i \in At(K)}] :
             \A i \in At(K) : f[i] \in InputsOf(K, S(i))}

\* The runs at K take their step with the values in; a run elsewhere waits.
Take(K, in) ==
    /\ \E now \in {<<S(1), S(2)>>} :
       \E out \in {<<IF 1 \in At(K) THEN StepOf(K, now[1], in[1]) ELSE Out(now[1], 0, FALSE),
                     IF 2 \in At(K) THEN StepOf(K, now[2], in[2]) ELSE Out(now[2], 0, FALSE)>>} :
            LET anyreset == \E i \in At(K) : out[i].reset
                allreset == At(K) = active /\ \A i \in At(K) : out[i].reset
            IN /\ Apply(At(K), <<out[1].st, out[2].st>>)
               /\ aligned' = /\ IF anyreset THEN allreset ELSE aligned
                             /\ \A i, j \in active : out[i].used = out[j].used
    /\ UNCHANGED config

NewWorld ==
    /\ At("api_new") # {}
    /\ \E in \in JointInputs("api_new") : Take("api_new", in)
PickStart ==
    /\ At("pick_start") # {}
    /\ \E in \in JointInputs("pick_start") : Take("pick_start", in)
PickGoal ==
    /\ At("pick_goal") # {}
    /\ \E in \in JointInputs("pick_goal") : Take("pick_goal", in)
Attempt ==
    /\ At("check") # {}
    /\ \E in \in JointInputs("check") : Take("check", in)
Placed ==
    /\ At("placed") # {}
    /\ \E in \in JointInputs("placed") : Take("placed", in)
AstarCall ==
    /\ At("call_astar") # {}
    /\ \E in \in JointInputs("call_astar") : Take("call_astar", in)
AstarIter ==
    /\ At("astar") # {}
    /\ \E in \in JointInputs("astar") : Take("astar", in)

\* ----------------------------------------------------------- configuration
Dims == -1 .. MaxSide
\* A seed is an opaque token: only "is it None" is ever asked of it.
Seeds == {None, "s7"}

ValidConfig ==
    /\ rows > 0 /\ cols > 0
    /\ InRange(wall_prob) /\ InRange(mud_prob)

Idle(i) ==
    /\ err[i] = None /\ stream[i] = "entropy" /\ drew[i] = FALSE /\ redraws[i] = 0 /\ genbit[i] = 0
    /\ tries[i] = 0 /\ g[i] = <<>> /\ parent[i] = <<>> /\ open_heap[i] = <<>>
    /\ open_set[i] = {} /\ closed_set[i] = {} /\ steps[i] = <<>> /\ popped[i] = <<>>
    /\ result[i] = NoResult

\* The web application: every request runs api_new; two requests are followed
\* when SEED is set.
Init ==
    /\ \E rc \in {d \in Dims \X Dims : ~(d[1] > 0 /\ d[2] > 0 /\ d[1] * d[2] > MaxWorldCells)} :
          rows = rc[1] /\ cols = rc[2]
    /\ wall_prob \in Probs /\ mud_prob \in Probs
    /\ seed \in Seeds
    /\ active = IF seed = None THEN {1} ELSE Runs
    /\ aligned = FALSE
    /\ pc = [i \in Runs |-> IF i \in active THEN "api_new" ELSE "idle"]
    /\ grid = [i \in Runs |-> NoGrid]
    /\ start = [i \in Runs |-> NoCell] /\ goal = [i \in Runs |-> NoCell]
    /\ record_steps = [i \in Runs |-> INCLUDE_STEPS]
    /\ err \in [Runs -> {None}] /\ stream \in [Runs -> {"entropy"}]
    /\ drew \in [Runs -> {FALSE}] /\ redraws \in [Runs -> {0}] /\ genbit \in [Runs -> {0}] /\ tries \in [Runs -> {0}]
    /\ g \in [Runs -> {<<>>}] /\ parent \in [Runs -> {<<>>}]
    /\ open_heap \in [Runs -> {<<>>}] /\ open_set \in [Runs -> {{}}]
    /\ closed_set \in [Runs -> {{}}] /\ steps \in [Runs -> {<<>>}]
    /\ popped \in [Runs -> {<<>>}] /\ result \in [Runs -> {NoResult}]

Next == NewWorld \/ PickStart \/ PickGoal \/ Attempt \/ Placed \/ AstarCall \/ AstarIter

Spec == Init /\ [][Next]_vars

\* astar called directly on any grid with any endpoints, once without and
\* once with record_steps.
Shapes == {rc \in (1 .. MaxSide) \X (1 .. MaxSide) : rc[1] * rc[2] <= MaxCells}
Grids == UNION {[0 .. rc[1] - 1 -> [0 .. rc[2] - 1 -> Tiles]] : rc \in Shapes}
\* Two cells outside the grid: above its first cell, right of its first row.
OutCells(grd) == {<<-1, 0>>, <<0, Cols(grd)>>}
Endpoints(grd) == CellsOf(grd) \cup OutCells(grd)

InitSolve ==
    /\ rows = 0 /\ cols = 0 /\ wall_prob = 0 /\ mud_prob = 0 /\ seed = None
    /\ active = Runs
    /\ aligned = TRUE
    /\ pc = [i \in Runs |-> "call_astar"]
    /\ \E grd \in Grids : \E st \in Endpoints(grd) : \E gl \in Endpoints(grd) :
          /\ grid = [i \in Runs |-> grd]
          /\ start = [i \in Runs |-> st]
          /\ goal = [i \in Runs |-> gl]
    /\ record_steps = [i \in Runs |-> i = 2]
    /\ err \in [Runs -> {None}] /\ stream \in [Runs -> {"entropy"}]
    /\ drew \in [Runs -> {FALSE}] /\ redraws \in [Runs -> {0}] /\ genbit \in [Runs -> {0}] /\ tries \in [Runs -> {0}]
    /\ g \in [Runs -> {<<>>}] /\ parent \in [Runs -> {<<>>}]
    /\ open_heap \in [Runs -> {<<>>}] /\ open_set \in [Runs -> {{}}]
    /\ closed_set \in [Runs -> {{}}] /\ steps \in [Runs -> {<<>>}]
    /\ popped \in [Runs -> {<<>>}] /\ result \in [Runs -> {NoResult}]

NextSolve == AstarCall \/ AstarIter

SpecSolve == InitSolve /\ [][NextSolve]_vars

\* The placement loop under the scheduling the interpreter gives it: a
\* single thread that always takes its next step.
FairInit == Init /\ ValidConfig
\* random_empty_cell draws uniformly from the cells: where a non-Wall cell
\* exists, the loop cannot reject for ever.
PickReturns == (PickStart \/ PickGoal) /\ pc' # pc
FairSpec == FairInit /\ [][Next]_vars /\ WF_vars(Next) /\ SF_vars(PickReturns)

\* One call of astar from its entry: the caller passes a grid and in-bounds
\* start and goal; the interpreter then keeps executing the function until it
\* returns.
InitEnter ==
    /\ rows = 0 /\ cols = 0 /\ wall_prob = 0 /\ mud_prob = 0 /\ seed = None
    /\ active = Runs
    /\ aligned = TRUE
    /\ pc = [i \in Runs |-> "enter"]
    /\ grid = [i \in Runs |-> NoGrid]
    /\ start = [i \in Runs |-> NoCell] /\ goal = [i \in Runs |-> NoCell]
    /\ record_steps = [i \in Runs |-> i = 2]
    /\ err \in [Runs -> {None}] /\ stream \in [Runs -> {"entropy"}]
    /\ drew \in [Runs -> {FALSE}] /\ redraws \in [Runs -> {0}] /\ genbit \in [Runs -> {0}] /\ tries \in [Runs -> {0}]
    /\ g \in [Runs -> {<<>>}] /\ parent \in [Runs -> {<<>>}]
    /\ open_heap \in [Runs -> {<<>>}] /\ open_set \in [Runs -> {{}}]
    /\ closed_set \in [Runs -> {{}}] /\ steps \in [Runs -> {<<>>}]
    /\ popped \in [Runs -> {<<>>}] /\ result \in [Runs -> {NoResult}]

FairGrids == {grd \in Grids : Cardinality(CellsOf(grd)) <= MaxFairCells}
EnterGrid ==
    /\ \A i \in Runs : pc[i] = "enter"
    /\ \E grd \in FairGrids : grid' = [i \in Runs |-> grd]
    /\ pc' = [i \in Runs |-> "enter_cells"]
    /\ UNCHANGED <<config, aligned, err, stream, drew, redraws, genbit, start, goal, tries,
                   record_steps, g, parent, open_heap, open_set, closed_set, steps, popped,
                   result>>
EnterCells ==
    /\ \A i \in Runs : pc[i] = "enter_cells"
    /\ \E st \in CellsOf(grid[1]) : \E gl \in CellsOf(grid[1]) :
          /\ start' = [i \in Runs |-> st]
          /\ goal' = [i \in Runs |-> gl]
    /\ pc' = [i \in Runs |-> "call_astar"]
    /\ UNCHANGED <<config, aligned, err, stream, drew, redraws, genbit, grid, tries,
                   record_steps, g, parent, open_heap, open_set, closed_set, steps, popped,
                   result>>

NextEnter == EnterGrid \/ EnterCells \/ AstarCall \/ AstarIter

FairSolve == InitEnter /\ [][NextEnter]_vars /\ WF_vars(NextEnter)

\* ------------------------------------------------------ reference notions
\* Written from the statements, not from the code: cells that share an edge,
\* the cells reachable over non-Wall cells, the cheapest cost of a walk.
Adjacent(a, b) == manhattan(a, b) = 1
OpenCells(grd) == {c \in CellsOf(grd) : Tile(grd, c) # TILE_WALL}

RECURSIVE Closure(_, _)
Closure(grd, cells) ==
    LET more == cells \cup {c \in OpenCells(grd) : \E x \in cells : Adjacent(c, x)}
    IN IF more = cells THEN cells ELSE Closure(grd, more)
Reachable(grd, a, b) ==
    a \in OpenCells(grd) /\ b \in Closure(grd, {a})

TileCost(tile) == CASE tile = TILE_NORMAL -> 1 [] tile = TILE_MUD -> 3
Far(grd) == 3 * Cardinality(CellsOf(grd)) + 1
Least(nums) == CHOOSE n \in nums : \A m \in nums : n <= m

\* Bellman-Ford to a fixed point; unit = TRUE counts steps instead of costs.
RECURSIVE Distances(_, _, _)
Distances(grd, unit, d) ==
    LET next == [c \in OpenCells(grd) |->
                   Least({d[c]} \cup {d[x] + (IF unit THEN 1 ELSE TileCost(Tile(grd, c))) :
                                        x \in {y \in OpenCells(grd) : Adjacent(y, c)}})]
    IN IF next = d THEN d ELSE Distances(grd, unit, next)
MinCost(grd, a, b) ==
    Distances(grd, FALSE, [c \in OpenCells(grd) |-> IF c = a THEN 0 ELSE Far(grd)])[b]
MinSteps(grd, a, b) ==
    Distances(grd, TRUE, [c \in OpenCells(grd) |-> IF c = a THEN 0 ELSE Far(grd)])[b]

RECURSIVE EnteredCost(_, _, _)
EnteredCost(grd, path, k) ==
    IF k > Len(path) THEN 0 ELSE TileCost(Tile(grd, path[k])) + EnteredCost(grd, path, k + 1)
\* Sum of the costs of the entered tiles: every cell of the path but the first.
PathCost(grd, path) == EnteredCost(grd, path, 2)

ValidEndpoints(i) == start[i] \in OpenCells(grid[i]) /\ goal[i] \in OpenCells(grid[i])
Sampling(i) == pc[i] \in {"pick_start", "pick_goal", "check"}
NoValidPlacement(grd) ==
    ~\E a \in OpenCells(grd) : \E b \in OpenCells(grd) : a # b /\ Reachable(grd, a, b)

\* ------------------------------------------------------------------ claims

\* C1: whenever place_entities_on_grid returns (grid, start, goal), start and
\* goal differ, both are non-Wall cells of the returned grid, and goal is
\* reachable from start over non-Wall cells of that grid.
C1_PlacementValid ==
    \A i \in active :
        pc[i] = "placed" =>
            /\ start[i] # goal[i]
            /\ start[i] \in OpenCells(grid[i]) /\ goal[i] \in OpenCells(grid[i])
            /\ Reachable(grid[i], start[i], goal[i])
\* A return that follows at least one regeneration of the grid.
C1_Witness == pc[1] = "placed" /\ genbit[1] = 0

\* C2: for reachable in-bounds non-Wall endpoints the path astar returns has
\* the least total cost of entered tiles among all walks from start to goal.
C2_CostOptimal ==
    \A i \in active :
        (pc[i] = "done" /\ ValidEndpoints(i) /\ Reachable(grid[i], start[i], goal[i])) =>
            /\ result[i].kind = "path"
            /\ PathCost(grid[i], result[i].path) = MinCost(grid[i], start[i], goal[i])
\* A returned path that is cheapest but has more steps than the fewest possible.
C2_Witness ==
    /\ pc[1] = "done" /\ ValidEndpoints(1) /\ result[1].kind = "path"
    /\ Len(result[1].path) - 1 > MinSteps(grid[1], start[1], goal[1])

\* C3 (as stated): every path astar returns starts at start, ends at goal,
\* moves one step up, down, left or right at a time, stays inside the grid
\* and holds no Wall cell.
C3_PathWellFormed ==
    \A i \in active :
        (pc[i] = "done" /\ result[i].kind = "path") =>
            LET path == result[i].path
            IN /\ path[1] = start[i] /\ path[Len(path)] = goal[i]
               /\ \A k \in 1 .. Len(path) - 1 : Adjacent(path[k], path[k + 1])
               /\ \A k \in 1 .. Len(path) : path[k] \in OpenCells(grid[i])

\* C4: for in-bounds non-Wall endpoints astar returns None exactly when goal
\* is not reachable from start; it then has emptied open_heap, and no
\* exception ends the call.
C4_NoneIffUnreachable ==
    \A i \in active :
        ValidEndpoints(i) =>
            /\ pc[i] # "error"
            /\ pc[i] = "done" =>
                 /\ result[i].kind = "None" <=> ~Reachable(grid[i], start[i], goal[i])
                 /\ result[i].kind = "None" => open_heap[i] = <<>>
\* None returned after more than the start cell was expanded.
C4_Witness ==
    /\ pc[1] = "done" /\ ValidEndpoints(1) /\ result[1].kind = "None"
    /\ Cardinality(closed_set[1]) >= 2

\* C5 (as stated): called with a start or goal outside the grid or on a Wall,
\* astar fails with InvalidEndpoint: it returns nothing and expands no node.
C5_InvalidEndpointRejected ==
    \A i \in active :
        (pc[i] # "call_astar" /\ ~ValidEndpoints(i)) =>
            /\ pc[i] = "error" /\ err[i] = "InvalidEndpoint"
            /\ closed_set[i] = {} /\ result[i] = NoResult

\* C6 (as stated): with rows or cols not positive, or a probability outside
\* [0,1], generation fails with InvalidConfiguration before a grid is built
\* and before a random draw is consumed.
C6_InvalidConfigRejected ==
    \A i \in active :
        (pc[i] # "api_new" /\ ~ValidConfig) =>
            /\ pc[i] = "error" /\ err[i] = "InvalidConfiguration"
            /\ genbit[i] = 0 /\ ~drew[i]

\* C7: two runs with the same non-None seed and the same configuration go
\* through the same grids, draw the same start and goal, expand the same
\* cells in the same order and return the same path, regenerations included:
\* they agree at every step, so also when both are done.
C7_Deterministic ==
    seed # None =>
        /\ pc[1] = pc[2]
        /\ grid[1] = grid[2] /\ start[1] = start[2] /\ goal[1] = goal[2]
        /\ result[1] = result[2] /\ popped[1] = popped[2]
\* Two seeded runs that both regenerated the grid and found a path.
C7_Witness ==
    /\ seed # None /\ pc[1] = "done" /\ pc[2] = "done"
    /\ genbit[1] = 0 /\ genbit[2] = 0 /\ result[1].kind = "path"

\* C8: astar with record_steps off (run 1) and on (run 2), on the same grid,
\* start and goal, pops the same cells in the same order and returns the same
\* path and expanded count, or None both times; only steps differs.
C8_RecordingIsInert ==
    (record_steps[1] # record_steps[2] /\ pc[1] = "done" /\ pc[2] = "done") =>
        /\ popped[1] = popped[2]
        /\ result[1].kind = result[2].kind
        /\ result[1].kind = "path" =>
             /\ result[1].path = result[2].path
             /\ result[1].expanded = result[2].expanded
\* Both runs done with a path, the recording run holding several snapshots.
C8_Witness ==
    /\ record_steps[1] # record_steps[2] /\ pc[1] = "done" /\ pc[2] = "done"
    /\ result[2].kind = "path" /\ Len(result[2].steps) >= 3 /\ result[1].steps = <<>>

\* C9 (as stated): a grid on which no valid placement exists, an all-Wall
\* grid included, is eventually replaced by a newly generated one.
C9_BadGridDiscarded ==
    \A b \in {0, 1} :
        (Sampling(1) /\ NoValidPlacement(grid[1]) /\ genbit[1] = b) ~> (genbit[1] # b)

\* C10: every failed attempt (start = goal, or goal unreachable) adds one to
\* tries; the grid is replaced exactly on the failure that takes tries past
\* the cap, and tries is then 0; no other step replaces the grid or changes
\* tries; so 0 <= tries <= cap at every sampling step.
C10_Attempt(i) ==
    IF start[i] = goal[i] \/ ~Reachable(grid[i], start[i], goal[i])
    THEN /\ pc'[i] = "pick_start"
         /\ IF tries[i] + 1 > MaxPlaceTries
            THEN genbit'[i] # genbit[i] /\ tries'[i] = 0
            ELSE genbit'[i] = genbit[i] /\ grid'[i] = grid[i] /\ tries'[i] = tries[i] + 1
    ELSE pc'[i] = "placed" /\ genbit'[i] = genbit[i] /\ grid'[i] = grid[i]
                           /\ tries'[i] = tries[i]
C10_RetryCounter ==
    [][\A i \in active :
          /\ (pc[i] = "check" /\ pc'[i] # "check") => C10_Attempt(i)
          /\ pc[i] \in {"pick_start", "pick_goal"} =>
                genbit'[i] = genbit[i] /\ grid'[i] = grid[i] /\ tries'[i] = tries[i]
          /\ Sampling(i)' => 0 <= tries'[i] /\ tries'[i] <= MaxPlaceTries]_vars
\* Sampling on a regenerated grid with the counter at the cap.
C10_Witness == pc[1] = "pick_start" /\ genbit[1] = 0 /\ tries[1] = MaxPlaceTries

\* C11: a pop of a cell already in closed_set changes none of g, parent,
\* closed_set, open_set and steps; every other pop expands a cell that was not
\* expanded before (closed_set gains exactly that cell and, when recording,
\* steps gains exactly its snapshot); and on success expanded equals the size
\* of closed_set, the number of distinct cells popped and, when recording, the
\* number of snapshots.
Range(seq) == {seq[k] : k \in 1 .. Len(seq)}
Popping(i) == pc[i] = "astar" /\ open_heap[i] # <<>>
NextPop(i) == open_heap[i][MinIndex(open_heap[i])][3]
C11_Pop(i) ==
    /\ (Popping(i) /\ NextPop(i) \in closed_set[i]) =>
          /\ g'[i] = g[i] /\ parent'[i] = parent[i] /\ closed_set'[i] = closed_set[i]
          /\ open_set'[i] = open_set[i] /\ steps'[i] = steps[i]
    /\ (Popping(i) /\ NextPop(i) \notin closed_set[i]) =>
          /\ closed_set'[i] = closed_set[i] \cup {NextPop(i)}
          /\ Cardinality(closed_set'[i]) = Cardinality(closed_set[i]) + 1
          /\ record_steps[i] =>
                /\ Len(steps'[i]) = Len(steps[i]) + 1
                /\ steps'[i][Len(steps'[i])].current = NextPop(i)
                /\ SubSeq(steps'[i], 1, Len(steps[i])) = steps[i]
          /\ ~record_steps[i] => steps'[i] = steps[i]
    /\ (Popping(i) /\ result'[i].kind = "path") =>
          /\ result'[i].expanded = Cardinality(closed_set'[i])
          /\ result'[i].expanded = Cardinality(Range(popped'[i]))
          /\ record_steps[i] =>
                /\ result'[i].expanded = Len(result'[i].steps)
                /\ result'[i].expanded =
                      Cardinality({result'[i].steps[k].current : k \in 1 .. Len(result'[i].steps)})
SameParent(i, c) ==
    IF c \in DOMAIN parent[i]
    THEN c \in DOMAIN parent'[i] /\ parent'[i][c] = parent[i][c]
    ELSE c \notin DOMAIN parent'[i]
C12_Iter(i) ==
    (ValidEndpoints(i) /\ pc[i] = "astar") =>
        /\ \A c \in closed_set[i] :
              /\ c \in closed_set'[i] /\ c \notin open_set'[i]
              /\ g'[i][c] = g[i][c] /\ SameParent(i, c)
        /\ open_set'[i] \cap closed_set'[i] = {}
        /\ \A k \in 1 .. Len(steps'[i]) : steps'[i][k].open \cap steps'[i][k].closed = {}
        /\ LET least == Distances(grid[i], FALSE,
                          [c \in OpenCells(grid[i]) |-> IF c = start[i] THEN 0 ELSE Far(grid[i])])
           IN \A c \in closed_set'[i] : g'[i][c] = least[c]
C12_ClosedIsFinal == [][\A i \in active : C12_Iter(i)]_vars
\* A closed cell that a later expansion reaches again at a higher cost: a
\* neighbour of the cell being expanded that is closed and is not its parent.
C12_Witness ==
    /\ pc[2] = "astar" /\ ValidEndpoints(2) /\ open_heap[2] # <<>>
    /\ NextPop(2) \notin closed_set[2]
    /\ \E c \in closed_set[2] :
          /\ Adjacent(c, NextPop(2)) /\ parent[2][NextPop(2)] # c
          /\ \E k \in 1 .. Len(steps[2]) : c \in steps[2][k].closed
    /\ \E c \in OpenCells(grid[2]) : Tile(grid[2], c) = TILE_MUD /\ c \in closed_set[2]

\* C13: astar called with in-bounds start and goal returns; until then every
\* push gives its cell a positive g, lower than any g the cell had, and no more
\* entries are pushed than the grid has cells; the reconstruction raises no
\* KeyError and does not loop, and the path holds no cell twice; when start =
\* goal the result is the path [start] with expanded 1.
InBoundsEndpoints(i) ==
    pc[i] \notin {"enter", "enter_cells"} /\ InBounds(grid[i], start[i]) /\ InBounds(grid[i], goal[i])
Pushes(i) == Len(popped[i]) + Len(open_heap[i])
C13_Push(i) ==
    (InBoundsEndpoints(i) /\ pc[i] = "astar") =>
        /\ \A c \in DOMAIN g'[i] :
              IF c \in DOMAIN g[i]
              THEN g'[i][c] <= g[i][c]
              ELSE g'[i][c] > 0
        /\ Pushes(i)' - Pushes(i) =
              Cardinality({c \in DOMAIN g'[i] : c \notin DOMAIN g[i] \/ g'[i][c] < g[i][c]})
        /\ Pushes(i)' <= Cardinality(CellsOf(grid[i]))
C13_Returned(i) ==
    InBoundsEndpoints(i) =>
        /\ pc[i] # "error"
        /\ (pc[i] = "done" /\ result[i].kind = "path") =>
              /\ Cardinality(Range(result[i].path)) = Len(result[i].path)
              /\ start[i] = goal[i] =>
                    result[i].path = <<start[i]>> /\ result[i].expanded = 1
        /\ (pc[i] = "done" /\ start[i] = goal[i]) => result[i].kind = "path"
C13_Terminates ==
    /\ \A i \in Runs : (InBoundsEndpoints(i) /\ pc[i] = "call_astar") ~> (pc[i] = "done")
    /\ [](\A i \in Runs : C13_Returned(i))
    /\ [][\A i \in Runs : C13_Push(i)]_vars
\* A returned path of several cells after a search that left entries on the
\* heap, and a solve with start = goal.
C13_Witness ==
    /\ pc[1] = "done" /\ InBoundsEndpoints(1) /\ result[1].kind = "path"
    /\ Len(result[1].path) >= 3 /\ open_heap[1] # <<>>
    /\ \E c \in CellsOf(grid[1]) : Tile(grid[1], c) = TILE_MUD /\ c \in closed_set[1]

====
